---- MODULE Spec2Model ----
(***************************************************************************)
(* Subscription-status reconciliation of the ibg-backend service.          *)
(*                                                                         *)
(* The repository holds several snapshots of the same PocketBase service.  *)
(* Three of them carry the Stripe webhook:                                 *)
(*   "main.go"   src/main.go                                               *)
(*   "part_001"  src/unnamed/part_001 (adds the product -> program step)   *)
(*   "part_000"  src/unnamed/part_000, second program (lines 75-312)       *)
(* The variable build says which of them is running.  The member-create    *)
(* hook is the same code in every snapshot.                                *)
(*                                                                         *)
(* Identifiers: a Stripe customer id "cus_i" is the integer i >= 1, and    *)
(* the empty string is NoCustomer.                                         *)
(*                                                                         *)
(* Specifications:                                                         *)
(*   Spec           webhook deliveries and member creation, one at a time  *)
(*   SpecProvision  Spec plus create requests carrying a customer id       *)
(*   SpecCancel     POST /cancel-subscription (part_001)                   *)
(*   SpecRevenue    POST /revenue-data (part_001)                          *)
(*   SpecRace       two webhook deliveries handled side by side            *)
(***************************************************************************)
EXTENDS Integers, Sequences, FiniteSets, TLC

\* ------------------------------------------------------------------ bounds
MaxMembers == 2
NumProducts == 1

\* --------------------------------------------------------------- constants
Builds == {"main.go", "part_001", "part_000"}

NoCustomer == 0
\* the ids Stripe can have issued; one is unknown to the store as long as no
\* row carries it
CustomerIds == 1..MaxMembers

ProductIds == 1..NumProducts
\* the empty string a record's program field holds until it is set
NoProgram == ""
\* product.Get(id).Name : the catalogue of the payment platform
ProductName(p) ==
    CASE p = 1 -> "Boxing"
      [] p = 2 -> "Jiu-Jitsu"
      [] p = 3 -> "MMA"
      [] OTHER -> "Judo"

Programs == {NoProgram} \cup {ProductName(p) : p \in ProductIds}

\* build, whsec : the snapshot running and whether STRIPE_WHSEC is set
\* store         : the rows of the "member" collection
\* customers     : how many customers the payment platform has issued
\* resp          : what the last request did and was answered
\* subscriptions : the subscriptions the payment platform holds
\* payments      : the payment intents the payment platform holds
\* race          : the webhook deliveries being handled side by side
VARIABLES build, whsec, store, customers, resp, subscriptions, payments, race

vars == <<build, whsec, store, customers, resp, subscriptions, payments, race>>

\* ------------------------------------------------------------ member record
\* a row of the "member" collection; its id is its position in store
Member(ref, sub, prog) ==
    [email |-> "m@x", name |-> "M", stripe_customer_id |-> ref,
     is_subscribed |-> sub, program |-> prog]

\* ----------------------------------------------------------------- payloads
EventTypes == {"invoice.paid", "invoice.payment_failed",
               "customer.subscription.deleted", "customer.created"}

InvoiceTypes == {"invoice.paid", "invoice.payment_failed"}

HandledTypes == InvoiceTypes \cup {"customer.subscription.deleted"}

\* invoice.Lines: "nil" no list at all, "empty" no item, "noprice" first item
\* has Price == nil, "price" first item is priced with a product id
NoLines == [kind |-> "nil", product |-> 0]

Lines ==
    {[kind |-> k, product |-> 0] : k \in {"nil", "empty", "noprice"}}
    \cup {[kind |-> "price", product |-> p] : p \in ProductIds}

\* event.Type plus what json.Unmarshal(event.Data.Raw, ...) yields:
\* decodes = FALSE when the typed payload does not decode
Ev(t, d, c, s, l) ==
    [type |-> t, decodes |-> d, customer |-> c, subscription |-> s, lines |-> l]

NoEvent == Ev("", FALSE, NoCustomer, FALSE, NoLines)

\* the lines of an invoice that no handler reads (an invoice.payment_failed
\* event, an invoice without subscription): one priced line stands for all
OneLine == {[kind |-> "price", product |-> 1]}

Events ==
    {Ev("invoice.paid", TRUE, c, TRUE, l) : c \in CustomerIds, l \in Lines}
    \cup {Ev("invoice.paid", TRUE, c, FALSE, l) : c \in CustomerIds, l \in OneLine}
    \cup {Ev("invoice.payment_failed", TRUE, c, s, l) :
        c \in CustomerIds, s \in BOOLEAN, l \in OneLine}
    \cup {Ev("customer.subscription.deleted", TRUE, c, FALSE, NoLines) :
             c \in CustomerIds}
    \cup {Ev(t, FALSE, NoCustomer, FALSE, NoLines) : t \in HandledTypes}
    \cup {Ev("customer.created", TRUE, NoCustomer, FALSE, NoLines)}

\* the raw request body: json = FALSE when it is not an event envelope
Payloads ==
    {[json |-> FALSE, event |-> NoEvent]}
    \cup {[json |-> TRUE, event |-> e] : e \in Events}

\* outcomes of the calls that leave the process
Envs == [productOK : BOOLEAN, saveOK : BOOLEAN]

\* -------------------------------------------------------------- record store
\* the lookup with the filter lost on a miss: any row will do
FindFirstRecordByData_any(st, ref) ==
    IF \E i \in 1..Len(st) : st[i].stripe_customer_id = ref
    THEN CHOOSE i \in 1..Len(st) :
            /\ st[i].stripe_customer_id = ref
            /\ \A j \in 1..(i - 1) : st[j].stripe_customer_id # ref
    ELSE IF Len(st) > 0 THEN 1 ELSE 0

\* Dao().FindFirstRecordByData("member", "stripe_customer_id", ref):
\* position of the first row with that value, 0 for sql.ErrNoRows
FindFirstRecordByData(st, ref) ==
    IF \E i \in 1..Len(st) : st[i].stripe_customer_id = ref
    THEN CHOOSE i \in 1..Len(st) :
            /\ st[i].stripe_customer_id = ref
            /\ \A j \in 1..(i - 1) : st[j].stripe_customer_id # ref
    ELSE 0

\* the save taking the loaded record for a new one: it inserts a row
SaveRecord_insert(st, i, rec, ok) ==
    IF ok THEN Append(st, rec) ELSE st

\* Dao().SaveRecord(record): writes the whole row, or fails and writes nothing
SaveRecord(st, i, rec, ok) ==
    IF ok THEN [st EXCEPT ![i] = rec] ELSE st

\* what a reconciliation handler leaves behind
Ret(st, err, reads, writes, gets, matched) ==
    [store |-> st, err |-> err, reads |-> reads, writes |-> writes,
     gets |-> gets, matched |-> matched]

\* -------------------------------------------------- reconciliation handlers
\* handleInvoicePaid saving a second time when the first SaveRecord fails
handleInvoicePaid_main_retry(invoice, st, env) ==
    IF ~invoice.subscription THEN [store |-> st, err |-> "none", reads |-> 0,
                                   writes |-> 0, gets |-> 0, matched |-> 0]
    ELSE LET i == IF \E k \in 1..Len(st) :
                        st[k].stripe_customer_id = invoice.customer
                  THEN CHOOSE k \in 1..Len(st) :
                          /\ st[k].stripe_customer_id = invoice.customer
                          /\ \A j \in 1..(k - 1) :
                                 st[j].stripe_customer_id # invoice.customer
                  ELSE 0
         IN  IF i = 0 THEN [store |-> st, err |-> "notfound", reads |-> 1,
                            writes |-> 0, gets |-> 0, matched |-> 0]
             ELSE [store |-> [st EXCEPT ![i].is_subscribed = TRUE],
                   err |-> "none", reads |-> 1,
                   writes |-> IF env.saveOK THEN 1 ELSE 2,
                   gets |-> 0, matched |-> i]

\* src/main.go
handleInvoicePaid_main(invoice, st, env) ==
    IF ~invoice.subscription THEN Ret(st, "none", 0, 0, 0, 0)
    ELSE LET i == FindFirstRecordByData(st, invoice.customer) IN
         IF i = 0 THEN Ret(st, "notfound", 1, 0, 0, 0)
         ELSE LET record == [st[i] EXCEPT !.is_subscribed = TRUE] IN
              Ret(SaveRecord(st, i, record, env.saveOK),
                  IF env.saveOK THEN "none" ELSE "save", 1, 1, 0, i)

\* handleInvoicePaid resolving the product after the record lookup
handleInvoicePaid_part001_late(invoice, st, env) ==
    IF ~invoice.subscription THEN [store |-> st, err |-> "none", reads |-> 0,
                                   writes |-> 0, gets |-> 0, matched |-> 0]
    ELSE LET i == IF \E k \in 1..Len(st) :
                        st[k].stripe_customer_id = invoice.customer
                  THEN CHOOSE k \in 1..Len(st) :
                          /\ st[k].stripe_customer_id = invoice.customer
                          /\ \A j \in 1..(k - 1) :
                                 st[j].stripe_customer_id # invoice.customer
                  ELSE 0
             priced == invoice.lines.kind = "price"
             productName == IF priced THEN ProductName(invoice.lines.product)
                            ELSE NoProgram
         IN  IF i = 0 THEN [store |-> st, err |-> "notfound", reads |-> 1,
                            writes |-> 0, gets |-> 0, matched |-> 0]
             ELSE IF invoice.lines.kind = "nil"
             THEN [store |-> st, err |-> "panic", reads |-> 1, writes |-> 0,
                   gets |-> 0, matched |-> i]
             ELSE IF priced /\ ~env.productOK
             THEN [store |-> st, err |-> "product", reads |-> 1, writes |-> 0,
                   gets |-> 1, matched |-> i]
             ELSE [store |-> IF env.saveOK
                             THEN [st EXCEPT ![i].is_subscribed = TRUE,
                                             ![i].program = productName]
                             ELSE st,
                   err |-> IF env.saveOK THEN "none" ELSE "save",
                   reads |-> 1, writes |-> 1,
                   gets |-> IF priced THEN 1 ELSE 0, matched |-> i]

\* src/unnamed/part_001: resolves the product name before the lookup and
\* always writes program, the empty productName included
handleInvoicePaid_part001(invoice, st, env) ==
    IF ~invoice.subscription THEN Ret(st, "none", 0, 0, 0, 0)
    ELSE IF invoice.lines.kind = "nil" THEN Ret(st, "panic", 0, 0, 0, 0)
    ELSE IF invoice.lines.kind = "price" /\ ~env.productOK
         THEN Ret(st, "product", 0, 0, 1, 0)
    ELSE LET gets == IF invoice.lines.kind = "price" THEN 1 ELSE 0
             productName == IF invoice.lines.kind = "price"
                            THEN ProductName(invoice.lines.product)
                            ELSE NoProgram
             i == FindFirstRecordByData(st, invoice.customer)
         IN  IF i = 0 THEN Ret(st, "notfound", 1, 0, gets, 0)
             ELSE LET record == [st[i] EXCEPT !.is_subscribed = TRUE,
                                              !.program = productName] IN
                  Ret(SaveRecord(st, i, record, env.saveOK),
                      IF env.saveOK THEN "none" ELSE "save", 1, 1, gets, i)

\* src/unnamed/part_000: record.Set on the loaded copy, no SaveRecord
handleInvoicePaid_part000(invoice, st, env) ==
    IF ~invoice.subscription THEN Ret(st, "none", 0, 0, 0, 0)
    ELSE LET i == FindFirstRecordByData(st, invoice.customer) IN
         IF i = 0 THEN Ret(st, "notfound", 1, 0, 0, 0)
         ELSE Ret(st, "none", 1, 0, 0, i)

handleInvoicePaid(b, invoice, st, env) ==
    CASE b = "main.go" -> handleInvoicePaid_main(invoice, st, env)
      [] b = "part_001" -> handleInvoicePaid_part001(invoice, st, env)
      [] b = "part_000" -> handleInvoicePaid_part000(invoice, st, env)

\* handleInvoicePaymentFailed without the invoice.Subscription == nil return
handleInvoicePaymentFailed_main_nocheck(invoice, st, env) ==
    LET i == FindFirstRecordByData(st, invoice.customer) IN
    IF i = 0 THEN Ret(st, "notfound", 1, 0, 0, 0)
    ELSE LET record == [st[i] EXCEPT !.is_subscribed = FALSE] IN
         Ret(SaveRecord(st, i, record, env.saveOK),
             IF env.saveOK THEN "none" ELSE "save", 1, 1, 0, i)

\* src/main.go and, line for line, src/unnamed/part_001
handleInvoicePaymentFailed_main(invoice, st, env) ==
    IF ~invoice.subscription THEN Ret(st, "none", 0, 0, 0, 0)
    ELSE LET i == FindFirstRecordByData(st, invoice.customer) IN
         IF i = 0 THEN Ret(st, "notfound", 1, 0, 0, 0)
         ELSE LET record == [st[i] EXCEPT !.is_subscribed = FALSE] IN
              Ret(SaveRecord(st, i, record, env.saveOK),
                  IF env.saveOK THEN "none" ELSE "save", 1, 1, 0, i)

\* src/unnamed/part_000
handleInvoicePaymentFailed_part000(invoice, st, env) ==
    IF ~invoice.subscription THEN Ret(st, "none", 0, 0, 0, 0)
    ELSE LET i == FindFirstRecordByData(st, invoice.customer) IN
         IF i = 0 THEN Ret(st, "notfound", 1, 0, 0, 0)
         ELSE Ret(st, "none", 1, 0, 0, i)

handleInvoicePaymentFailed(b, invoice, st, env) ==
    IF b = "part_000" THEN handleInvoicePaymentFailed_part000(invoice, st, env)
    ELSE handleInvoicePaymentFailed_main(invoice, st, env)

\* handleSubscriptionDeleted flipping the flag instead of assigning false
handleSubscriptionDeleted_main_toggle(sub, st, env) ==
    LET i == FindFirstRecordByData(st, sub.customer) IN
    IF i = 0 THEN Ret(st, "notfound", 1, 0, 0, 0)
    ELSE LET record == [st[i] EXCEPT !.is_subscribed = ~st[i].is_subscribed] IN
         Ret(SaveRecord(st, i, record, env.saveOK),
             IF env.saveOK THEN "none" ELSE "save", 1, 1, 0, i)

\* src/main.go and, line for line, src/unnamed/part_001
handleSubscriptionDeleted_main(sub, st, env) ==
    LET i == FindFirstRecordByData(st, sub.customer) IN
         IF i = 0 THEN Ret(st, "notfound", 1, 0, 0, 0)
         ELSE LET record == [st[i] EXCEPT !.is_subscribed = FALSE] IN
              Ret(SaveRecord(st, i, record, env.saveOK),
                  IF env.saveOK THEN "none" ELSE "save", 1, 1, 0, i)

\* src/unnamed/part_000
handleSubscriptionDeleted_part000(sub, st, env) ==
    LET i == FindFirstRecordByData(st, sub.customer) IN
         IF i = 0 THEN Ret(st, "notfound", 1, 0, 0, 0)
         ELSE Ret(st, "none", 1, 0, 0, i)

handleSubscriptionDeleted(b, sub, st, env) ==
    IF b = "part_000" THEN handleSubscriptionDeleted_part000(sub, st, env)
    ELSE handleSubscriptionDeleted_main(sub, st, env)

\* ------------------------------------------------------------ webhook route
\* status the framework's error handler gives a bare error a route returns:
\* 404 when it wraps sql.ErrNoRows, 400 otherwise (a recovered panic too)
FrameworkStatus(err) ==
    CASE err = "none" -> 200
      [] err = "notfound" -> 404
      [] OTHER -> 400

Idle(st) == Ret(st, "none", 0, 0, 0, 0)

Answer(status, err, event, handler, r) ==
    [store |-> r.store, status |-> status, err |-> err, event |-> event,
     handler |-> handler, reads |-> r.reads, writes |-> r.writes,
     gets |-> r.gets, matched |-> r.matched]

\* the switch with a default branch that returns an error for unknown types
dispatch_main_default(b, event, st, env) ==
    LET bad == Answer(FrameworkStatus("decode"), "decode", event, "none", Idle(st))
        run(name, r) == Answer(FrameworkStatus(r.err), r.err, event, name, r)
    IN
    CASE event.type = "invoice.paid" ->
            IF ~event.decodes THEN bad
            ELSE run("handleInvoicePaid", handleInvoicePaid(b, event, st, env))
      [] event.type = "invoice.payment_failed" ->
            IF ~event.decodes THEN bad
            ELSE run("handleInvoicePaymentFailed",
                     handleInvoicePaymentFailed(b, event, st, env))
      [] event.type = "customer.subscription.deleted" ->
            IF ~event.decodes THEN bad
            ELSE run("handleSubscriptionDeleted",
                     handleSubscriptionDeleted(b, event, st, env))
      [] OTHER -> Answer(FrameworkStatus("unhandled"), "unhandled", event,
                         "none", Idle(st))

\* src/main.go and src/unnamed/part_001: the switch on event.Type
dispatch_main(b, event, st, env) ==
    LET bad == Answer(FrameworkStatus("decode"), "decode", event, "none", Idle(st))
        run(name, r) == Answer(FrameworkStatus(r.err), r.err, event, name, r)
    IN
    CASE event.type = "invoice.paid" ->
            IF ~event.decodes THEN bad
            ELSE run("handleInvoicePaid", handleInvoicePaid(b, event, st, env))
      [] event.type = "invoice.payment_failed" ->
            IF ~event.decodes THEN bad
            ELSE run("handleInvoicePaymentFailed",
                     handleInvoicePaymentFailed(b, event, st, env))
      [] event.type = "customer.subscription.deleted" ->
            IF ~event.decodes THEN bad
            ELSE run("handleSubscriptionDeleted",
                     handleSubscriptionDeleted(b, event, st, env))
      [] OTHER -> Answer(200, "none", event, "none", Idle(st))

\* src/main.go and src/unnamed/part_001: POST /webhook
webhook_main(b, secret, sigValid, payload, st, env) ==
    IF secret /\ ~sigValid
    THEN Answer(FrameworkStatus("signature"), "signature", NoEvent, "none", Idle(st))
    ELSE IF ~payload.json
    THEN Answer(FrameworkStatus("json"), "json", NoEvent, "none", Idle(st))
    ELSE dispatch_main(b, payload.event, st, env)

\* the switch with the json.Unmarshal errors dropped: the handler then gets
\* the zero invoice or subscription
dispatch_part000_nodecode(b, event, st, env) ==
    LET status(r) == CASE r.err = "none" -> 200
                       [] r.err = "panic" -> FrameworkStatus("panic")
                       [] OTHER -> 500
        run(name, r) == Answer(status(r), r.err, event, name, r)
    IN
    CASE event.type = "invoice.paid" ->
            run("handleInvoicePaid", handleInvoicePaid(b, event, st, env))
      [] event.type = "invoice.payment_failed" ->
            run("handleInvoicePaymentFailed",
                handleInvoicePaymentFailed(b, event, st, env))
      [] event.type = "customer.subscription.deleted" ->
            IF ~event.decodes
            THEN Answer(FrameworkStatus("panic"), "panic", event,
                        "handleSubscriptionDeleted", Idle(st))
            ELSE run("handleSubscriptionDeleted",
                     handleSubscriptionDeleted(b, event, st, env))
      [] OTHER -> Answer(200, "none", event, "none", Idle(st))

\* src/unnamed/part_000: the switch on event.Type; a handler's error is
\* answered 500, an undecodable payload 400, a panic is left to the framework
dispatch_part000(b, event, st, env) ==
    LET bad == Answer(400, "decode", event, "none", Idle(st))
        status(r) == CASE r.err = "none" -> 200
                       [] r.err = "panic" -> FrameworkStatus("panic")
                       [] OTHER -> 500
        run(name, r) == Answer(status(r), r.err, event, name, r)
    IN
    CASE event.type = "invoice.paid" ->
            IF ~event.decodes THEN bad
            ELSE run("handleInvoicePaid", handleInvoicePaid(b, event, st, env))
      [] event.type = "invoice.payment_failed" ->
            IF ~event.decodes THEN bad
            ELSE run("handleInvoicePaymentFailed",
                     handleInvoicePaymentFailed(b, event, st, env))
      [] event.type = "customer.subscription.deleted" ->
            IF ~event.decodes THEN bad
            ELSE run("handleSubscriptionDeleted",
                     handleSubscriptionDeleted(b, event, st, env))
      [] OTHER -> Answer(200, "none", event, "none", Idle(st))

\* src/unnamed/part_000: POST /webhook, signature verification commented out
webhook_part000(b, secret, sigValid, payload, st, env) ==
    IF ~payload.json
    THEN Answer(400, "json", NoEvent, "none", Idle(st))
    ELSE dispatch_part000(b, payload.event, st, env)

webhook(b, secret, sigValid, payload, st, env) ==
    IF b = "part_000" THEN webhook_part000(b, secret, sigValid, payload, st, env)
    ELSE webhook_main(b, secret, sigValid, payload, st, env)

\* ------------------------------------------------------ member provisioning
\* OnRecordAfterCreateRequest("member"): runs once the framework has stored
\* the new row, which is the last one of st; issued is the number of remote
\* customers so far, the next one gets the next id
OnRecordAfterCreateRequest(st, issued, customerOK, saveOK) ==
    IF ~customerOK
    THEN [store |-> st, customers |-> issued, err |-> "customer"]
    ELSE LET newCustomer == issued + 1
             n == Len(st)
             record == [st[n] EXCEPT !.stripe_customer_id = newCustomer]
         IN  [store |-> SaveRecord(st, n, record, saveOK),
              customers |-> newCustomer,
              err |-> IF saveOK THEN "none" ELSE "save"]

\* -------------------------------------------------------------------- state
NoResp ==
    [kind |-> "none", status |-> 0, err |-> "none", sigValid |-> TRUE,
     event |-> NoEvent, handler |-> "none", reads |-> 0, writes |-> 0,
     gets |-> 0, matched |-> 0, changed |-> FALSE, again |-> FALSE]

Init ==
    /\ build \in Builds
    /\ whsec \in BOOLEAN
    /\ store = <<>>
    /\ customers = 0
    /\ resp = NoResp
    /\ subscriptions = <<>>
    /\ payments = <<>>
    /\ race = <<>>

\* the Stripe-Signature header is valid or not with respect to the configured
\* secret; with no secret configured there is nothing to tell apart
Signatures == IF whsec THEN BOOLEAN ELSE {TRUE}

\* one delivery to POST /webhook; the calls that leave the process succeed or
\* fail, and outcomes of calls the handler never makes are not told apart
Webhook ==
    \E sigValid \in Signatures, payload \in Payloads :
    \E a \in {webhook(build, whsec, sigValid, payload, store, env) : env \in Envs} :
        /\ store' = a.store
        /\ resp' = [kind |-> "webhook", status |-> a.status, err |-> a.err,
                    sigValid |-> sigValid, event |-> a.event,
                    handler |-> a.handler, reads |-> a.reads,
                    writes |-> a.writes, gets |-> a.gets,
                    matched |-> a.matched, changed |-> a.store # store,
                    again |-> /\ resp.kind = "webhook"
                              /\ resp.status = 200
                              /\ payload.json
                              /\ payload.event = resp.event]
        /\ UNCHANGED <<build, whsec, customers, subscriptions, payments, race>>

\* one record-create request on the member collection whose body carries the
\* stripe_customer_id given: the framework stores the row as the body gives
\* it, then runs the hook; resp.gets counts the customer.New call
CreateRequest(given) ==
    /\ Len(store) < MaxMembers
    /\ \E subscribed \in BOOLEAN, customerOK \in BOOLEAN, saveOK \in BOOLEAN :
        LET created == Append(store, Member(given, subscribed, NoProgram))
            h == OnRecordAfterCreateRequest(created, customers, customerOK, saveOK)
        IN
        /\ store' = h.store
        /\ customers' = h.customers
        /\ resp' = [NoResp EXCEPT !.kind = "create",
                                  !.status = FrameworkStatus(h.err),
                                  !.err = h.err, !.writes = 1, !.gets = 1,
                                  !.matched = Len(created), !.changed = TRUE]
        /\ UNCHANGED <<build, whsec, subscriptions, payments, race>>

\* a create request as the client application sends it: no stripe_customer_id
CreateMember == CreateRequest(NoCustomer)

Next == Webhook \/ CreateMember

Spec == Init /\ [][Next]_vars

\* a create request whose body names a customer the payment platform has
\* issued before: the hook runs for it as for any other
CreateMemberWithRef == \E given \in 1..customers : CreateRequest(given)

NextProvision == Webhook \/ CreateMember \/ CreateMemberWithRef

\* the service with create requests that carry a stripe_customer_id
SpecProvision == Init /\ [][NextProvision]_vars

\* ================================================================ properties
\* some row of st carries the customer id c
HasCustomer(st, c) == \E i \in 1..Len(st) : st[i].stripe_customer_id = c

\* the first row of st that carries the customer id c
Holder(st, c) ==
    CHOOSE i \in 1..Len(st) :
        /\ st[i].stripe_customer_id = c
        /\ \A j \in 1..(i - 1) : st[j].stripe_customer_id # c

\* the last request was a webhook delivery whose event was accepted, had
\* type t and a typed payload that decoded
Delivered(t) ==
    /\ resp.kind = "webhook"
    /\ resp.event.type = t
    /\ resp.event.decodes

\* a delivery as the claims on reconciliation mean it: a handled event, an
\* invoice with a subscription reference
Reconciled(t) ==
    /\ Delivered(t)
    /\ t \in InvoiceTypes => resp.event.subscription

\* C1: once the webhook has acknowledged an invoice.paid event that has a
\* subscription reference and a customer some stored member carries, that
\* member's stored is_subscribed is true.
C1_PaidSubscribes ==
    (/\ Reconciled("invoice.paid")
     /\ resp.status = 200
     /\ HasCustomer(store, resp.event.customer))
    => store[Holder(store, resp.event.customer)].is_subscribed

\* C2: once the webhook has acknowledged a customer.subscription.deleted
\* event whose customer some stored member carries, that member's stored
\* is_subscribed is false.
C2_DeletedUnsubscribes ==
    (/\ Reconciled("customer.subscription.deleted")
     /\ resp.status = 200
     /\ HasCustomer(store, resp.event.customer))
    => ~store[Holder(store, resp.event.customer)].is_subscribed

\* C3: once the webhook has acknowledged an invoice.payment_failed event
\* that has a subscription reference and a customer some stored member
\* carries, that member's stored is_subscribed is false.
C3_FailedUnsubscribes ==
    (/\ Reconciled("invoice.payment_failed")
     /\ resp.status = 200
     /\ HasCustomer(store, resp.event.customer))
    => ~store[Holder(store, resp.event.customer)].is_subscribed

\* C4: an invoice.paid or invoice.payment_failed event whose invoice has no
\* subscription reference is answered 200 with no record lookup, no record
\* write and no product lookup, and the store is left as it was.
C4_NullSubscriptionNoop ==
    \A t \in InvoiceTypes :
        (Delivered(t) /\ ~resp.event.subscription)
        => /\ resp.status = 200
           /\ resp.reads = 0
           /\ resp.writes = 0
           /\ resp.gets = 0
           /\ ~resp.changed

\* C4 witness: such an invoice.paid, with a priced line and the customer of
\* a stored member that is not subscribed, acknowledged by the build that
\* resolves products.
C4_Witness ==
    /\ build = "part_001"
    /\ Delivered("invoice.paid")
    /\ ~resp.event.subscription
    /\ resp.event.lines.kind = "price"
    /\ HasCustomer(store, resp.event.customer)
    /\ ~store[Holder(store, resp.event.customer)].is_subscribed
    /\ resp.status = 200

\* C5: an event delivered again right after the webhook acknowledged it
\* leaves the whole store as the first delivery left it.
C5_Idempotent == resp.again => ~resp.changed

\* C5 witness: the second delivery of an invoice.paid that found its member
\* and wrote the row once more, product name included.
C5_Witness ==
    /\ build = "part_001"
    /\ resp.again
    /\ Reconciled("invoice.paid")
    /\ resp.event.lines.kind = "price"
    /\ resp.matched # 0
    /\ resp.writes = 1
    /\ resp.status = 200
    /\ store[resp.matched].program = ProductName(resp.event.lines.product)

\* C6: an accepted event of a type other than the three handled ones is
\* answered 200, runs no handler, reads no record and changes no record.
C6_UnhandledAcknowledged ==
    (/\ resp.kind = "webhook"
     /\ resp.event # NoEvent
     /\ resp.event.type \notin HandledTypes)
    => /\ resp.status = 200
       /\ resp.handler = "none"
       /\ resp.reads = 0
       /\ resp.writes = 0
       /\ ~resp.changed

\* C6 witness: an unhandled event acknowledged while members are stored.
C6_Witness ==
    /\ resp.kind = "webhook"
    /\ resp.event.type = "customer.created"
    /\ resp.status = 200
    /\ Len(store) > 0

\* the last delivery was a handled event naming a customer no row carries
UnknownCustomer ==
    /\ \E t \in HandledTypes : Reconciled(t)
    /\ ~HasCustomer(store, resp.event.customer)

\* C7 as stated: a handled event naming a customer that no member carries
\* fails with a not-found error, is not answered 200, and no record is
\* created or changed.
C7_NotFound ==
    UnknownCustomer
    => /\ resp.err = "notfound"
       /\ resp.status # 200
       /\ ~resp.changed

\* C7 amended: such an event fails and is not answered 200, nothing is
\* written, created or changed; the error is the not-found error of the one
\* lookup, unless the event is an invoice.paid whose product resolution,
\* which runs before the lookup, already failed.
C7_NotFoundUnlessProductFails ==
    UnknownCustomer
    => /\ resp.status # 200
       /\ resp.writes = 0
       /\ ~resp.changed
       /\ \/ resp.err = "notfound" /\ resp.reads = 1
          \/ /\ build = "part_001"
             /\ resp.event.type = "invoice.paid"
             /\ resp.event.lines.kind \in {"nil", "price"}
             /\ resp.err \in {"panic", "product"}
             /\ resp.reads = 0

\* C7 witness: a subscription deletion for a customer unknown to a store
\* that holds members, answered with the not-found error.
C7_Witness ==
    /\ Reconciled("customer.subscription.deleted")
    /\ Len(store) > 0
    /\ ~HasCustomer(store, resp.event.customer)
    /\ resp.err = "notfound"
    /\ resp.status # 200

\* C8: a delivery whose typed payload does not decode for its event type is
\* answered with a 4xx status, never 200, and changes no record.
C8_DecodeFailureIs4xx ==
    (/\ resp.kind = "webhook"
     /\ resp.event.type \in HandledTypes
     /\ ~resp.event.decodes)
    => /\ resp.status \in 400..499
       /\ resp.handler = "none"
       /\ resp.writes = 0
       /\ ~resp.changed

\* C8 witness: an undecodable invoice.paid payload refused while members
\* are stored.
C8_Witness ==
    /\ resp.kind = "webhook"
    /\ resp.event.type = "invoice.paid"
    /\ ~resp.event.decodes
    /\ resp.err = "decode"
    /\ resp.status = 400
    /\ Len(store) > 0

\* C9: with a signing secret configured, a delivery whose signature is not
\* valid is refused before dispatch: not answered 200, no handler run, no
\* record read or written; with no secret configured no delivery is refused
\* for its signature.
C9_SignatureGate ==
    resp.kind = "webhook"
    => /\ (whsec /\ ~resp.sigValid)
          => /\ resp.status # 200
             /\ resp.event = NoEvent
             /\ resp.handler = "none"
             /\ resp.reads = 0
             /\ resp.writes = 0
       /\ ~whsec => resp.err # "signature"

\* C10: when the remote customer creation fails, the creation request fails
\* and the new member row, which has no customer_ref, is not in the store.
C10_CreateAborted ==
    (resp.kind = "create" /\ resp.err = "customer")
    => /\ resp.status # 200
       /\ Len(store) < resp.matched

\* C11: a member's customer id is empty until its provisioning succeeds and
\* is then the id the payment platform returned: right after a create
\* request the new row carries the id just issued when the hook succeeded
\* and no id when it failed, and every id a row carries was issued by the
\* platform.
C11_RefSetOnce ==
    /\ \A i \in 1..Len(store) :
           store[i].stripe_customer_id \in {NoCustomer} \cup 1..customers
    /\ resp.kind = "create"
       => store[resp.matched].stripe_customer_id =
              IF resp.err = "none" THEN customers ELSE NoCustomer

\* C12: no two member rows carry the same non-empty customer id.
C12_RefUnique ==
    \A i, j \in 1..Len(store) :
        (/\ i # j
         /\ store[i].stripe_customer_id # NoCustomer)
        => store[i].stripe_customer_id # store[j].stripe_customer_id

\* the delivery that a step answers carries an invoice.paid event with a
\* subscription reference whose first line item is priced: the one event a
\* product name is derivable from
Derivable(r) ==
    /\ r.event.type = "invoice.paid"
    /\ r.event.decodes
    /\ r.event.subscription
    /\ r.event.lines.kind = "price"

\* C13: a webhook delivery whose event yields no product name (an
\* invoice.paid without line items or with an unpriced first line item, an
\* invoice.payment_failed, a customer.subscription.deleted) leaves the
\* program of every member as it was.
C13_ProgramFrame ==
    [][(resp'.kind = "webhook" /\ ~Derivable(resp'))
       => /\ Len(store') = Len(store)
          /\ \A i \in 1..Len(store) : store'[i].program = store[i].program]_vars

\* ------------------------------------------------- POST /cancel-subscription
MaxSubscriptions == 3

\* a subscription of the payment platform; its id is its position in
\* subscriptions
Subscription(c, status) == [customer |-> c, status |-> status]

\* the ids below or at i of the subscriptions of customer c that are not
\* canceled, most recent first: the order and the default status filter of
\* the platform's list call
RECURSIVE ListFrom(_, _, _)
ListFrom(subs, c, i) ==
    IF i = 0 THEN <<>>
    ELSE (IF subs[i].customer = c /\ subs[i].status # "canceled"
          THEN <<i>> ELSE <<>>) \o ListFrom(subs, c, i - 1)

\* subscription.List(params): an iterator over the customer's subscriptions;
\* when the call fails the iterator yields nothing and keeps the error
subscription_List(subs, c, ok) ==
    IF ok THEN ListFrom(subs, c, Len(subs)) ELSE <<>>

\* subscription.Cancel(id, nil)
subscription_Cancel(subs, id, ok) ==
    IF ok THEN [subs EXCEPT ![id].status = "canceled"] ELSE subs

CancelAnswer(status, body, listed, calls, subs) ==
    [status |-> status, body |-> body, listed |-> listed, calls |-> calls,
     subscriptions |-> subs]

\* the loop without its returns: every listed subscription is cancelled
RECURSIVE CancelEach(_, _, _)
CancelEach(subs, list, ok) ==
    IF list = <<>> THEN subs
    ELSE CancelEach(subscription_Cancel(subs, Head(list), ok), Tail(list), ok)

handleCancelSubscription_all(bindOK, customerId, subs, listOK, cancelOK) ==
    IF ~bindOK THEN CancelAnswer(400, "Invalid customer ID", <<>>, <<>>, subs)
    ELSE LET subList == subscription_List(subs, customerId, listOK) IN
         IF subList = <<>>
         THEN CancelAnswer(404, "No subscription found for the customer",
                           subList, <<>>, subs)
         ELSE IF ~cancelOK
         THEN CancelAnswer(500, "Failed to cancel subscription",
                           subList, subList, subs)
         ELSE CancelAnswer(200, "Subscription cancelled successfully",
                           subList, subList, CancelEach(subs, subList, TRUE))

\* src/unnamed/part_001: the first pass of the loop over the iterator
\* returns, whatever subscription.Cancel answers; the iterator's error is
\* never read
handleCancelSubscription(bindOK, customerId, subs, listOK, cancelOK) ==
    IF ~bindOK THEN CancelAnswer(400, "Invalid customer ID", <<>>, <<>>, subs)
    ELSE LET subList == subscription_List(subs, customerId, listOK) IN
         IF subList = <<>>
         THEN CancelAnswer(404, "No subscription found for the customer",
                           subList, <<>>, subs)
         ELSE LET sub == Head(subList) IN
              IF ~cancelOK
              THEN CancelAnswer(500, "Failed to cancel subscription",
                                subList, <<sub>>, subs)
              ELSE CancelAnswer(200, "Subscription cancelled successfully",
                                subList, <<sub>>,
                                subscription_Cancel(subs, sub, TRUE))

\* the snapshot that serves the route, with nothing stored or issued
InitCancel ==
    /\ build = "part_001"
    /\ whsec \in BOOLEAN
    /\ store = <<>>
    /\ customers = 0
    /\ resp = NoResp
    /\ subscriptions = <<>>
    /\ payments = <<>>
    /\ race = <<>>

\* the payment platform starts a subscription for a customer (a checkout
\* completed)
Subscribe ==
    /\ Len(subscriptions) < MaxSubscriptions
    /\ \E c \in CustomerIds :
           subscriptions' = Append(subscriptions, Subscription(c, "active"))
    /\ UNCHANGED <<build, whsec, store, customers, resp, payments, race>>

\* one request to POST /cancel-subscription
CancelSubscription ==
    \E bindOK \in BOOLEAN, customerId \in CustomerIds :
    \E a \in {handleCancelSubscription(bindOK, customerId, subscriptions,
                                       listOK, cancelOK) :
                  listOK \in BOOLEAN, cancelOK \in BOOLEAN} :
        /\ subscriptions' = a.subscriptions
        /\ resp' = [kind |-> "cancel", bound |-> bindOK, customer |-> customerId,
                    status |-> a.status, body |-> a.body,
                    listed |-> a.listed, calls |-> a.calls]
        /\ UNCHANGED <<build, whsec, store, customers, payments, race>>

NextCancel == Subscribe \/ CancelSubscription

SpecCancel == InitCancel /\ [][NextCancel]_vars

\* C14: a cancel request whose listing yields no subscription is answered
\* 404 "No subscription found for the customer" without any cancel call;
\* one whose listing yields some makes exactly one cancel call, for the first
\* listed subscription, is answered 200 when that call succeeds and 500 when
\* it fails, and leaves every other listed subscription uncancelled.
C14_CancelFirstOnly ==
    (resp.kind = "cancel" /\ resp.bound)
    => IF resp.listed = <<>>
       THEN /\ resp.status = 404
            /\ resp.body = "No subscription found for the customer"
            /\ resp.calls = <<>>
       ELSE /\ resp.calls = <<Head(resp.listed)>>
            /\ resp.status \in {200, 500}
            /\ resp.status = 200
               <=> subscriptions[Head(resp.listed)].status = "canceled"
            /\ \A k \in 2..Len(resp.listed) :
                   subscriptions[resp.listed[k]].status = "active"

\* C14 witness: a customer with two listed subscriptions, the first listed
\* one cancelled and the request answered 200.
C14_Witness ==
    /\ resp.kind = "cancel"
    /\ resp.status = 200
    /\ Len(resp.listed) >= 2
    /\ resp.calls = <<Head(resp.listed)>>
    /\ subscriptions[resp.listed[1]].status = "canceled"
    /\ subscriptions[resp.listed[2]].status = "active"

\* --------------------------------------------------------- POST /revenue-data
MaxPayments == 3

\* Unix times are counted in half months from 1 January 2024
MonthNames ==
    <<"January", "February", "March", "April", "May", "June", "July",
      "August", "September", "October", "November", "December">>

\* time.Unix(t, 0).Format("2006")
Year(t) == 2024 + (t \div 24)

\* time.Unix(t, 0).Format("January")
Month(t) == MonthNames[((t \div 2) % 12) + 1]

\* the creation times of the model: two in March 2024, one in April 2024,
\* one in March 2025
Times == {4, 5, 6, 28}

\* payment.Status: succeeded, or one of the others
Statuses == {"succeeded", "requires_payment_method"}

\* payment.Amount, in minor units
Amounts == {1000, 2500}

\* the monthsAgo of a request body
MonthsBack == {0, 1, 12}

\* a payment intent of the payment platform
PaymentIntent(t, status, amount) ==
    [created |-> t, status |-> status, amount |-> amount]

\* getTimeframe(monthsAgo) at the clock time now: from the first day of the
\* month monthsAgo months back until now
getTimeframe(now, monthsAgo) ==
    [start |-> 2 * ((now \div 2) - monthsAgo), end |-> now]

\* the payment intents below or at i created within the timeframe, most
\* recent first
RECURSIVE CreatedWithin(_, _, _)
CreatedWithin(pays, tf, i) ==
    IF i = 0 THEN <<>>
    ELSE (IF pays[i].created >= tf.start /\ pays[i].created <= tf.end
          THEN <<pays[i]>> ELSE <<>>) \o CreatedWithin(pays, tf, i - 1)

\* paymentintent.List(params) with the two created filters: what the iterator
\* yields and the error it ends with
paymentintent_List(pays, tf, ok) ==
    IF ok THEN [items |-> CreatedWithin(pays, tf, Len(pays)), err |-> FALSE]
    ELSE [items |-> <<>>, err |-> TRUE]

\* m[k] of a Go map: the zero value for a missing key
MapGet(m, k) == IF k \in DOMAIN m THEN m[k] ELSE 0

\* m[k] = v of a Go map
MapPut(m, k, v) == [x \in DOMAIN m \cup {k} |-> IF x = k THEN v ELSE m[x]]

\* the loop with the status test dropped: every payment is added
RECURSIVE Aggregate_anystatus(_, _)
Aggregate_anystatus(list, revenueData) ==
    IF list = <<>> THEN revenueData
    ELSE LET payment == Head(list)
             month == Month(payment.created)
             year == Year(payment.created)
             ofYear == IF year \in DOMAIN revenueData
                       THEN revenueData[year] ELSE <<>>
         IN  Aggregate_anystatus(Tail(list),
                 MapPut(revenueData, year,
                        MapPut(ofYear, month,
                               MapGet(ofYear, month) + payment.amount)))

\* the loop over paymentList: revenueData[year][month] += payment.Amount for
\* the succeeded payments, the year's map made on first use
RECURSIVE Aggregate(_, _)
Aggregate(list, revenueData) ==
    IF list = <<>> THEN revenueData
    ELSE LET payment == Head(list)
             month == Month(payment.created)
             year == Year(payment.created)
             ofYear == IF year \in DOMAIN revenueData
                       THEN revenueData[year] ELSE <<>>
         IN  IF payment.status = "succeeded"
             THEN Aggregate(Tail(list),
                      MapPut(revenueData, year,
                             MapPut(ofYear, month,
                                    MapGet(ofYear, month) + payment.amount)))
             ELSE Aggregate(Tail(list), revenueData)

RevenueAnswer(status, body, data, listed) ==
    [status |-> status, body |-> body, data |-> data, listed |-> listed]

\* src/unnamed/part_001
handleRevenueData(bindOK, monthsAgo, now, pays, listOK) ==
    IF ~bindOK THEN RevenueAnswer(400, "Invalid request body", <<>>, <<>>)
    ELSE LET timeframe == getTimeframe(now, monthsAgo)
             paymentList == paymentintent_List(pays, timeframe, listOK)
             revenueData == Aggregate(paymentList.items, <<>>)
         IN  IF paymentList.err
             THEN RevenueAnswer(500, "Failed to fetch payment intents", <<>>,
                                paymentList.items)
             ELSE RevenueAnswer(200, "", revenueData, paymentList.items)

\* the snapshot that serves the route, with nothing stored or issued
InitRevenue ==
    /\ build = "part_001"
    /\ whsec \in BOOLEAN
    /\ store = <<>>
    /\ customers = 0
    /\ resp = NoResp
    /\ subscriptions = <<>>
    /\ payments = <<>>
    /\ race = <<>>

\* the creation time of the latest payment intent, the first time when
\* there is none
LastCreated(pays) ==
    IF pays = <<>> THEN CHOOSE t \in Times : \A u \in Times : t <= u
    ELSE pays[Len(pays)].created

\* the payment platform records a payment intent, of any status
PaymentCreated ==
    /\ Len(payments) < MaxPayments
    /\ \E t \in Times, status \in Statuses, amount \in Amounts :
        /\ t >= LastCreated(payments)
        /\ payments' = Append(payments, PaymentIntent(t, status, amount))
    /\ UNCHANGED <<build, whsec, store, customers, resp, subscriptions, race>>

\* one request to POST /revenue-data, at a clock time not before the latest
\* payment intent
RevenueData ==
    \E bindOK \in BOOLEAN, monthsAgo \in MonthsBack, listOK \in BOOLEAN :
    \E now \in {t \in Times : t >= LastCreated(payments)} :
        LET a == handleRevenueData(bindOK, monthsAgo, now, payments, listOK) IN
        /\ resp' = [kind |-> "revenue", status |-> a.status, body |-> a.body,
                    data |-> a.data, listed |-> a.listed]
        /\ UNCHANGED <<build, whsec, store, customers, subscriptions,
                       payments, race>>

NextRevenue == PaymentCreated \/ RevenueData

SpecRevenue == InitRevenue /\ [][NextRevenue]_vars

\* the positions of the succeeded payments of list created in year y and
\* the month named m
SucceededIn(list, y, m) ==
    {k \in 1..Len(list) : /\ list[k].status = "succeeded"
                          /\ Year(list[k].created) = y
                          /\ Month(list[k].created) = m}

RECURSIVE SumAmounts(_, _)
SumAmounts(list, ks) ==
    IF ks = {} THEN 0
    ELSE LET k == CHOOSE k \in ks : TRUE
         IN  list[k].amount + SumAmounts(list, ks \ {k})

\* C15: the data a revenue request is answered with holds, for a year and a
\* month name, an entry exactly when some listed payment with status
\* succeeded was created in that year and month, and the entry is the sum of
\* the amounts of those payments; payments of another status add nothing.
C15_RevenueSums ==
    (resp.kind = "revenue" /\ resp.status = 200)
    => LET list == resp.listed
           years == {Year(t) : t \in Times}
           months == {MonthNames[n] : n \in 1..Len(MonthNames)}
       IN  /\ DOMAIN resp.data \subseteq years
           /\ \A y \in DOMAIN resp.data : DOMAIN resp.data[y] \subseteq months
           /\ \A y \in years, m \in months :
                  IF SucceededIn(list, y, m) = {}
                  THEN y \in DOMAIN resp.data => m \notin DOMAIN resp.data[y]
                  ELSE /\ y \in DOMAIN resp.data
                       /\ m \in DOMAIN resp.data[y]
                       /\ resp.data[y][m] =
                              SumAmounts(list, SucceededIn(list, y, m))
           /\ \A y \in DOMAIN resp.data : DOMAIN resp.data[y] # {}

\* C15 witness: two succeeded payments of March 2024 and a payment of
\* another status are listed, and the answer holds their sum for that month.
C15_Witness ==
    /\ resp.kind = "revenue"
    /\ resp.status = 200
    /\ Len(resp.listed) = 3
    /\ \E k \in 1..3 : resp.listed[k].status # "succeeded"
    /\ Cardinality(SucceededIn(resp.listed, 2024, "March")) = 2
    /\ resp.data[2024]["March"] = 3500

\* ------------------------------------------- webhook deliveries side by side
\* the events delivered side by side: handled events for the customer of the
\* stored member, invoices with a subscription reference
RaceEvents ==
    {e \in Events : /\ e.type \in HandledTypes
                    /\ e.decodes
                    /\ e.customer = 1
                    /\ e.type \in InvoiceTypes => e.subscription}

\* a delivery being handled: its event, the outcomes of its outgoing calls,
\* the store when it arrived, where its handler stands, and the row it has
\* loaded
Delivery(event, env, st) ==
    [event |-> event, env |-> env, start |-> st, pc |-> "lookup",
     record |-> Member(NoCustomer, FALSE, NoProgram), id |-> 0]

\* the route's handler run from lookup to save on the store st
Handle(b, d, st) ==
    webhook(b, FALSE, TRUE, [json |-> TRUE, event |-> d.event], st, d.env)

\* one stored and provisioned member, two deliveries arriving for its
\* customer
InitRace ==
    /\ build \in Builds
    /\ whsec = FALSE
    /\ customers = 1
    /\ resp = NoResp
    /\ subscriptions = <<>>
    /\ payments = <<>>
    /\ \E sub \in BOOLEAN, prog \in Programs :
           store = <<Member(1, sub, prog)>>
    /\ \E e1 \in RaceEvents, e2 \in RaceEvents, v1 \in Envs, v2 \in Envs :
           race = <<Delivery(e1, v1, store), Delivery(e2, v2, store)>>

\* the handler of delivery k runs up to and including FindFirstRecordByData:
\* it ends there when it returns before the lookup or finds no row, and
\* holds its own copy of the row otherwise
Lookup(k) ==
    /\ race[k].pc = "lookup"
    /\ LET a == Handle(build, race[k], store) IN
       race' = [race EXCEPT ![k] =
                   IF a.matched = 0 THEN [@ EXCEPT !.pc = "done"]
                   ELSE [@ EXCEPT !.pc = "save", !.id = a.matched,
                                  !.record = store[a.matched]]]
    /\ UNCHANGED <<build, whsec, store, customers, resp, subscriptions, payments>>

\* the handler of delivery k sets its fields on its copy and saves the whole
\* copy over the stored row
Save(k) ==
    /\ race[k].pc = "save"
    /\ LET d == race[k]
           a == Handle(build, d, [store EXCEPT ![d.id] = d.record])
       IN  store' = SaveRecord(store, d.id, a.store[d.id],
                               a.writes = 1 /\ d.env.saveOK)
    /\ race' = [race EXCEPT ![k].pc = "done"]
    /\ UNCHANGED <<build, whsec, customers, resp, subscriptions, payments>>

RaceLookup == \E k \in DOMAIN race : Lookup(k)

RaceSave == \E k \in DOMAIN race : Save(k)

NextRace == RaceLookup \/ RaceSave

SpecRace == InitRace /\ [][NextRace]_vars

\* the store after delivery first and then delivery second were handled one
\* after the other on the store st
Serial(b, st, first, second) ==
    Handle(b, second, Handle(b, first, st).store).store

\* C16: when two deliveries for the same customer have both been handled,
\* in whatever interleaving of their lookups and saves, the store is one
\* that handling them one after the other, in one of the two orders, gives.
C16_Serializable ==
    (/\ Len(race) = 2
     /\ \A k \in DOMAIN race : race[k].pc = "done")
    => store \in {Serial(build, race[1].start, race[1], race[2]),
                  Serial(build, race[1].start, race[2], race[1])}

\* C17: a webhook delivery makes at most one record lookup and at most one
\* record write; a write comes after a lookup that found a row, and goes to
\* that row, the first one carrying the event's customer; the store changes
\* only through that one write.
C17_OneReadOneWrite ==
    resp.kind = "webhook"
    => /\ resp.reads <= 1
       /\ resp.writes <= 1
       /\ resp.writes = 1
          => /\ resp.reads = 1
             /\ resp.matched # 0
             /\ HasCustomer(store, resp.event.customer)
             /\ resp.matched = Holder(store, resp.event.customer)
       /\ resp.changed => resp.writes = 1

\* C17 witness: an invoice.paid for the customer of the second stored
\* member: one lookup, one write, to that row.
C17_Witness ==
    /\ Reconciled("invoice.paid")
    /\ resp.reads = 1
    /\ resp.writes = 1
    /\ resp.matched = 2
    /\ resp.changed
    /\ store[2].is_subscribed

\* C18: a webhook delivery creates and deletes no member row, changes no
\* row but the first one that carries the event's customer, and of that
\* row changes nothing but is_subscribed and program.
C18_ReconcileFrame ==
    [][resp'.kind = "webhook"
       => /\ Len(store') = Len(store)
          /\ \A i \in 1..Len(store) :
                 /\ store'[i].email = store[i].email
                 /\ store'[i].name = store[i].name
                 /\ store'[i].stripe_customer_id = store[i].stripe_customer_id
                 /\ store'[i] # store[i]
                    => /\ HasCustomer(store, resp'.event.customer)
                       /\ i = Holder(store, resp'.event.customer)]_vars

\* C18 witness: an invoice.paid has subscribed the second of two members
\* and set its program, the first member being as it was created.
C18_Witness ==
    /\ build = "part_001"
    /\ Reconciled("invoice.paid")
    /\ resp.changed
    /\ Len(store) = 2
    /\ resp.matched = 2
    /\ store[2].is_subscribed
    /\ store[2].program # NoProgram
    /\ ~store[1].is_subscribed
    /\ store[1].program = NoProgram

\* C19: an invoice.paid with a subscription reference and a priced first
\* line whose product lookup fails is refused before any record lookup or
\* write: the store is as it was and the answer is not 200.
C19_ProductFailureFirst ==
    (/\ Reconciled("invoice.paid")
     /\ resp.event.lines.kind = "price"
     /\ resp.gets = 1
     /\ resp.err = "product")
    => /\ resp.status # 200
       /\ resp.reads = 0
       /\ resp.writes = 0
       /\ resp.matched = 0
       /\ ~resp.changed

\* C19 witness: such a delivery for the customer of a stored member that is
\* not subscribed, refused with the product error.
C19_Witness ==
    /\ build = "part_001"
    /\ Reconciled("invoice.paid")
    /\ resp.event.lines.kind = "price"
    /\ resp.err = "product"
    /\ resp.status # 200
    /\ HasCustomer(store, resp.event.customer)
    /\ ~store[Holder(store, resp.event.customer)].is_subscribed

====
